---------------------------- MODULE Spec2Model ----------------------------
(***************************************************************************)
(* Model of src/1_Nederland_def.py: the excise report pipeline             *)
(* process_files and its helper to_float_eu.                               *)
(*                                                                         *)
(* Text cells on which the code works character by character (SKU,         *)
(* product name, quantity, alcohol percentage) are sequences of            *)
(* one-character strings; the empty sequence is the missing cell (NaN):    *)
(* read_csv(dtype=str) turns a blank field into NaN and never yields an    *)
(* empty string.  Cells that the code only copies and compares (order      *)
(* name, status, billing fields) are atomic strings, "" being NaN.         *)
(* Numbers are exact decimals [n, d] (value n/d, d a power of ten, kept    *)
(* normalised so that equal values are equal records); d = 0 is NaN.       *)
(* Timestamps are counted in microseconds.                                 *)
(***************************************************************************)
EXTENDS Integers, Sequences, FiniteSets, TLC

VARIABLES pc,          \* "ready" before the call, "done" after it
          series,      \* argument of to_float_eu
          floats,      \* value returned by to_float_eu
          sku,         \* one "Lineitem sku" cell
          sku_out,     \* that cell after line 37
          main,        \* rows of the main export, as read on line 31
          has_status,  \* "Fulfillment Status" in data.columns
          reference,   \* rows of the reference file, as read on line 41
          start_date,
          end_date,
          stages,      \* the intermediate tables of the last call
          final_data   \* the table process_files returns

vars == <<pc, series, floats, sku, sku_out, main, has_status, reference,
          start_date, end_date, stages, final_data>>

-----------------------------------------------------------------------------
(* Bounds of the model *)

MaxLen == 3        \* length of the enumerated strings given to to_float_eu
MaxSeries == 2     \* length of the enumerated series of example strings
MaxSkuLen == 4     \* length of the enumerated SKU strings
MaxE2ESku == 3      \* length of the SKU strings of the end-to-end runs
MaxOrders == 2     \* rows of the main export where the reference table varies
MaxRef == 2        \* rows of the reference table
MaxGapRows == 3    \* rows of the main export where status and country vary
MaxAggRows == 3    \* rows of the main export where the products vary
MaxSec == 2        \* whole seconds on the model's time axis

-----------------------------------------------------------------------------
(* Characters and strings *)

NBSP == "NBSP"     \* the one character U+00A0

Digits == <<"0", "1", "2", "3", "4", "5", "6", "7", "8", "9">>

IsDigit(c) == \E i \in 1..10 : Digits[i] = c

DigitVal(c) == (CHOOSE i \in 1..10 : Digits[i] = c) - 1

NaNStr == <<>>

\* Series.astype(str): a missing cell becomes the text "nan"
AsStr(c) == IF c = NaNStr THEN <<"n", "a", "n">> ELSE c

\* str.replace(old, new, regex=False) for a one-character old; new is a string
RECURSIVE ReplaceChar(_, _, _)
ReplaceChar(s, old, new) ==
    IF s = <<>> THEN <<>>
    ELSE (IF Head(s) = old THEN new ELSE <<Head(s)>>) \o ReplaceChar(Tail(s), old, new)

\* str.replace(r"[^0-9.\-]+", "", regex=True)
KeepNumeric(s) == SelectSeq(s, LAMBDA c : IsDigit(c) \/ c = "." \/ c = "-")

IsSpace(c) == c \in {" ", NBSP}

RECURSIVE LStrip(_)
LStrip(s) == IF s # <<>> /\ IsSpace(Head(s)) THEN LStrip(Tail(s)) ELSE s

RECURSIVE RStrip(_)
RStrip(s) ==
    IF s # <<>> /\ IsSpace(s[Len(s)]) THEN RStrip(SubSeq(s, 1, Len(s) - 1)) ELSE s

\* str.strip()
Strip(s) == RStrip(LStrip(s))

-----------------------------------------------------------------------------
(* Numbers *)

NaN == [n |-> 0, d |-> 0]

IsNaN(x) == x.d = 0

RECURSIVE Norm(_)
Norm(x) ==
    IF x.d > 1 /\ x.n % 10 = 0 THEN Norm([n |-> x.n \div 10, d |-> x.d \div 10])
    ELSE x

Whole(k) == [n |-> k, d |-> 1]

Mul(a, b) ==
    IF IsNaN(a) \/ IsNaN(b) THEN NaN ELSE Norm([n |-> a.n * b.n, d |-> a.d * b.d])

Add(a, b) == Norm([n |-> a.n * b.d + b.n * a.d, d |-> a.d * b.d])

\* a <= b and a > b on floats: both are false when an operand is NaN
Leq(a, b) == ~IsNaN(a) /\ ~IsNaN(b) /\ a.n * b.d <= b.n * a.d

Gt(a, b) == ~IsNaN(a) /\ ~IsNaN(b) /\ a.n * b.d > b.n * a.d

RECURSIVE Pow10(_)
Pow10(k) == IF k = 0 THEN 1 ELSE 10 * Pow10(k - 1)

RECURSIVE DigitsVal(_)
DigitsVal(s) ==
    IF s = <<>> THEN 0 ELSE 10 * DigitsVal(SubSeq(s, 1, Len(s) - 1)) + DigitVal(s[Len(s)])

\* pd.to_numeric(errors="coerce") of one cell: an optional minus sign, digits
\* with at most one period and at least one digit; anything else, the missing
\* cell included, is NaN.  (Exponents, signs "+" and the words inf/nan are
\* outside the strings the model enumerates.)
ToNumericMissingAsZero(s) ==
    LET neg  == s # <<>> /\ Head(s) = "-"
        body == IF neg THEN Tail(s) ELSE s
        dots == {i \in 1..Len(body) : body[i] = "."}
        ok   == /\ \A i \in 1..Len(body) : IsDigit(body[i]) \/ body[i] = "."
                /\ Cardinality(dots) <= 1
        p    == IF dots = {} THEN Len(body) + 1 ELSE CHOOSE i \in dots : TRUE
        ds   == SelectSeq(body, IsDigit)
        mag  == [n |-> DigitsVal(ds), d |-> Pow10(Len(body) - p + (IF dots = {} THEN 1 ELSE 0))]
    IN  IF ~ok THEN NaN
        ELSE Norm([n |-> IF neg THEN 0 - mag.n ELSE mag.n, d |-> mag.d])

ToNumeric(s) ==
    LET neg  == s # <<>> /\ Head(s) = "-"
        body == IF neg THEN Tail(s) ELSE s
        dots == {i \in 1..Len(body) : body[i] = "."}
        ok   == /\ \A i \in 1..Len(body) : IsDigit(body[i]) \/ body[i] = "."
                /\ Cardinality(dots) <= 1
                /\ \E i \in 1..Len(body) : IsDigit(body[i])
        p    == IF dots = {} THEN Len(body) + 1 ELSE CHOOSE i \in dots : TRUE
        ds   == SelectSeq(body, IsDigit)
        mag  == [n |-> DigitsVal(ds), d |-> Pow10(Len(body) - p + (IF dots = {} THEN 1 ELSE 0))]
    IN  IF ~ok THEN NaN
        ELSE Norm([n |-> IF neg THEN 0 - mag.n ELSE mag.n, d |-> mag.d])

\* the same without the comma-to-period step
ToFloatEuCellNoComma(c) ==
    ToNumeric(Strip(KeepNumeric(ReplaceChar(ReplaceChar(AsStr(c), "%", <<>>), NBSP, <<" ">>))))

\* to_float_eu, one element
ToFloatEuCell(c) ==
    LET s1 == AsStr(c)
        s2 == ReplaceChar(s1, "%", <<>>)
        s3 == ReplaceChar(s2, NBSP, <<" ">>)
        s4 == ReplaceChar(s3, ",", <<".">>)
        s5 == KeepNumeric(s4)
        s6 == Strip(s5)
    IN  ToNumeric(s6)

\* to_float_eu
to_float_eu(s) == [i \in 1..Len(s) |-> ToFloatEuCell(s[i])]

-----------------------------------------------------------------------------
(* SKU normalisation, content extraction, rendering *)

Upper == {"A", "B", "C", "D", "E", "F", "G", "H", "I", "J", "K", "L", "M",
          "N", "O", "P", "Q", "R", "S", "T", "U", "V", "W", "X", "Y", "Z"}

Min(S) == CHOOSE x \in S : \A y \in S : x <= y

Max(S) == CHOOSE x \in S : \A y \in S : x >= y

\* the places where (-\d+|[A-Z])$ matches
SkuSuffixMatches(s) ==
    {i \in 1..Len(s) :
        \/ /\ s[i] = "-"
           /\ i < Len(s)
           /\ \A j \in (i + 1)..Len(s) : IsDigit(s[j])
        \/ /\ i = Len(s)
           /\ s[i] \in Upper}

\* the same pattern without the uppercase-letter alternative
SkuSuffixMatchesDashOnly(s) ==
    {i \in 1..Len(s) :
        /\ s[i] = "-"
        /\ i < Len(s)
        /\ \A j \in (i + 1)..Len(s) : IsDigit(s[j])}

\* str.replace(r"(-\d+|[A-Z])$", "", regex=True): the leftmost match is cut
StripSkuSuffixDashOnly(s) ==
    IF SkuSuffixMatchesDashOnly(s) = {} THEN s
    ELSE SubSeq(s, 1, Min(SkuSuffixMatchesDashOnly(s)) - 1)

StripSkuSuffix(s) ==
    IF SkuSuffixMatches(s) = {} THEN s
    ELSE SubSeq(s, 1, Min(SkuSuffixMatches(s)) - 1)

\* data["SKU"].astype(str).str.replace(...), one cell
NormalizeSkuCell(c) == StripSkuSuffix(AsStr(c))

\* str.extract(r"(\d+)(?!.*\d)")[0]: the last maximal run of digits, NaN if none
LastDigitRun(s) ==
    LET ds == {i \in 1..Len(s) : IsDigit(s[i])}
        e  == Max(ds)
        b  == Min({i \in 1..e : \A j \in i..e : IsDigit(s[j])})
    IN  IF ds = {} THEN NaNStr ELSE SubSeq(s, b, e)

RECURSIVE NatStr(_)
NatStr(k) ==
    IF k < 10 THEN <<Digits[k + 1]>> ELSE NatStr(k \div 10) \o <<Digits[(k % 10) + 1]>>

\* f"{float(x):.1f}": the value rounded to one decimal.  The halfway case is
\* decided by the binary value of the float; it is written here as it falls
\* for a float that holds the decimal exactly (to even), and the alcohol
\* percentages the model enumerates have no halfway case.
Format1(x) ==
    LET m  == IF x.n < 0 THEN 0 - x.n ELSE x.n
        q  == (m * 10) \div x.d
        r  == (m * 10) % x.d
        up == 2 * r > x.d \/ (2 * r = x.d /\ q % 2 = 1)
        k  == IF up THEN q + 1 ELSE q
    IN  (IF x.n < 0 THEN <<"-">> ELSE <<>>)
            \o NatStr(k \div 10) \o <<".">> \o <<Digits[(k % 10) + 1]>>

\* lambda x: "" if pd.isna(x) else f"{float(x):.1f}"
RenderAlcohol(x) == IF IsNaN(x) THEN NaNStr ELSE Format1(x)

-----------------------------------------------------------------------------
(* Timestamps *)

MicrosPerSec == 1000000

NaT == -1

\* a timestamp cell of the export: "YYYY-MM-DD HH:MM:SS" (sec), then an
\* optional fraction (micro) and an optional zone offset (off)
NaNDate == [kind |-> "nan", sec |-> 0, micro |-> 0, off |-> 0]

BadDate == [kind |-> "bad", sec |-> 0, micro |-> 0, off |-> 0]

Stamp(s, m, o) == [kind |-> "ts", sec |-> s, micro |-> m, off |-> o]

\* pd.to_datetime(col.astype(str).str.slice(0, 19), errors="coerce"), one cell
ParseDate(c) == IF c.kind = "ts" THEN c.sec * MicrosPerSec ELSE NaT

\* (new_df["Delivery date"] >= start_date) & (new_df["Delivery date"] <= end_date)
InWindowOpenEnd(t, s, e) == t # NaT /\ t >= s /\ t < e

InWindow(t, s, e) == t # NaT /\ t >= s /\ t <= e

-----------------------------------------------------------------------------
(* Tables.  A row is a record; src is the row's place in the main export   *)
(* and is carried for reference only: no stage reads it.                   *)

\* the rows of t at the places in idx, in order
Pick(t, idx) ==
    [k \in 1..Cardinality(idx) |->
        t[CHOOSE i \in idx : Cardinality({j \in idx : j <= i}) = k]]

RECURSIVE Flatten(_)
Flatten(ss) == IF ss = <<>> THEN <<>> ELSE Head(ss) \o Flatten(Tail(ss))

\* data[data["Fulfillment Status"] != "restocked"], when the column exists
RestockFilterOff(rows, hs) == rows

RestockFilter(rows, hs) ==
    IF hs THEN SelectSeq(rows, LAMBDA r : r.Status # "restocked") ELSE rows

\* data["SKU"] = data["SKU"].astype(str).str.replace(...)
NormalizeSku(rows) ==
    [i \in 1..Len(rows) |-> [rows[i] EXCEPT !.SKU = NormalizeSkuCell(@)]]

\* no removal of equal rows
KeepDuplicates(t) == t

\* read_csv(...).drop_duplicates(): the first of each group of equal rows
DropDuplicates(t) == Pick(t, {i \in 1..Len(t) : \A j \in 1..(i - 1) : t[j] # t[i]})

\* check[["SKU", "Alcohol Percentage"]]
KeyColumns(t) == [i \in 1..Len(t) |-> [SKU |-> t[i].SKU, Alc |-> t[i].Alc]]

\* the reference rows one order row is joined with; a missing reference SKU
\* (NaN) equals no text key
Matches(r, check) ==
    SelectSeq(check, LAMBDA c : c.SKU # NaNStr /\ c.SKU = r.SKU)

WithAlc(r, a) ==
    [Name |-> r.Name, CreatedAt |-> r.CreatedAt, Status |-> r.Status,
     FulfilledAt |-> r.FulfilledAt, SKU |-> r.SKU, Qty |-> r.Qty,
     LineName |-> r.LineName, BName |-> r.BName, BStreet |-> r.BStreet,
     BCountry |-> r.BCountry, Alc |-> a, src |-> r.src]

\* an inner join: an order row without a match is lost
MergeInner(data, check) ==
    Flatten([i \in 1..Len(data) |->
        LET m == Matches(data[i], check)
        IN  [k \in 1..Len(m) |-> WithAlc(data[i], m[k].Alc)]])

\* pd.merge(data, check[["SKU", "Alcohol Percentage"]], on="SKU", how="left"):
\* the order rows in their order, each once per matching reference row, or
\* once with a missing alcohol percentage when none matches
Merge(data, check) ==
    Flatten([i \in 1..Len(data) |->
        LET m == Matches(data[i], check)
        IN  IF m = <<>> THEN <<WithAlc(data[i], NaNStr)>>
            ELSE [k \in 1..Len(m) |-> WithAlc(data[i], m[k].Alc)]])

\* data["Alcohol Percentage"] = to_float_eu(data["Alcohol Percentage"])
ParseAlcohol(rows) ==
    LET f == to_float_eu([i \in 1..Len(rows) |-> rows[i].Alc])
    IN  [i \in 1..Len(rows) |-> [rows[i] EXCEPT !.Alc = f[i]]]

\* data[col].ffill(): na is the column's missing value
RECURSIVE FFillFrom(_, _, _, _)
FFillFrom(rows, col, na, last) ==
    IF rows = <<>> THEN <<>>
    ELSE LET v == IF Head(rows)[col] = na THEN last ELSE Head(rows)[col]
         IN  <<[Head(rows) EXCEPT ![col] = v]>> \o FFillFrom(Tail(rows), col, na, v)

FFill(rows, col, na) == FFillFrom(rows, col, na, na)

\* the loop over the four columns
GapFill(rows) ==
    FFill(FFill(FFill(FFill(rows, "FulfilledAt", NaNDate), "BCountry", ""),
                "BName", ""), "BStreet", "")

\* data[~data["Billing Country"].isin(["NL", "FR"])]
CountryFilter(rows) == SelectSeq(rows, LAMBDA r : r.BCountry \notin {"NL", "FR"})

\* pd.to_numeric(new_df["Number of sold items"], errors="coerce").fillna(0)
Quantity(c) == IF IsNaN(ToNumeric(c)) THEN Whole(0) ELSE ToNumeric(c)

\* pd.to_numeric(extract(...)[0], errors="coerce")
Content(c) == ToNumeric(LastDigitRun(AsStr(c)))

\* lines 57-102: projection, renaming, dates, quantity, content, total
ReportRow(r) ==
    [Order |-> r.Name, InvDate |-> ParseDate(r.CreatedAt),
     DelDate |-> ParseDate(r.FulfilledAt), Client |-> r.BName,
     Addr |-> r.BStreet, Product |-> r.LineName, Qty |-> Quantity(r.Qty),
     Content |-> Content(r.LineName),
     Total |-> Mul(Content(r.LineName), Quantity(r.Qty)),
     Alc |-> r.Alc, Plato |-> 0, Country |-> r.BCountry, src |-> r.src]

Reshape(rows) == [i \in 1..Len(rows) |-> ReportRow(rows[i])]

\* new_df[(Delivery date >= start_date) & (Delivery date <= end_date)]
DateFilter(rows, s, e) == SelectSeq(rows, LAMBDA r : InWindow(r.DelDate, s, e))

\* the twelve columns of final_cols
FinalCols(r) ==
    <<r.Order, r.InvDate, r.DelDate, r.Client, r.Addr, r.Product, r.Qty,
      r.Content, r.Total, r.Alc, r.Plato, r.Country>>

KeepAllRows(t) == t

\* filtered_df[final_cols].drop_duplicates()
DropDuplicateReportRows(t) ==
    Pick(t, {i \in 1..Len(t) : \A j \in 1..(i - 1) : FinalCols(t[j]) # FinalCols(t[i])})

\* Series.sum(skipna=True)
RECURSIVE SumSkipNa(_)
SumSkipNa(xs) ==
    IF xs = <<>> THEN Whole(0)
    ELSE IF IsNaN(Head(xs)) THEN SumSkipNa(Tail(xs))
    ELSE Add(Head(xs), SumSkipNa(Tail(xs)))

Totals(rows) == [i \in 1..Len(rows) |-> rows[i].Total]

Threshold == [n |-> 85, d |-> 10]

\* every row with a known percentage counted below the threshold
SumLowerAll(t) == SumSkipNa(Totals(SelectSeq(t, LAMBDA r : ~IsNaN(r.Alc))))

\* final_data.loc[final_data["Alcohol Percentage"] <= 8.5, "Total content"].sum()
SumLower(t) == SumSkipNa(Totals(SelectSeq(t, LAMBDA r : Leq(r.Alc, Threshold))))

\* final_data.loc[final_data["Alcohol Percentage"] > 8.5, "Total content"].sum()
SumHigher(t) == SumSkipNa(Totals(SelectSeq(t, LAMBDA r : Gt(r.Alc, Threshold))))

\* x / 1000
Div1000(x) == Norm([n |-> x.n, d |-> x.d * 1000])

\* a summary row: label and total, every other column pd.NA.  src 0: no
\* row of the export
SummaryRow(label, total) ==
    [Order |-> label, InvDate |-> NaT, DelDate |-> NaT, Client |-> "",
     Addr |-> "", Product |-> NaNStr, Qty |-> NaN, Content |-> NaN,
     Total |-> total, Alc |-> NaN, Plato |-> -1, Country |-> "", src |-> 0]

LabelLower == "Total Content <= 8.5%"

LabelHigher == "Total Content > 8.5%"

SummaryRows(t) ==
    <<SummaryRow(LabelLower, Div1000(SumLower(t))),
      SummaryRow(LabelHigher, Div1000(SumHigher(t)))>>

\* final_data["Alcohol Percentage"].map(...): the column as text
Render(t) == [i \in 1..Len(t) |-> [t[i] EXCEPT !.Alc = RenderAlcohol(@)]]

\* the tables of process_files, in the order the code makes them
Pipeline(m, hs, ref, s, e) ==
    LET data     == NormalizeSku(RestockFilter(m, hs))
        check    == KeyColumns(DropDuplicates(ref))
        merged   == Merge(data, check)
        filled   == GapFill(ParseAlcohol(merged))
        df       == CountryFilter(filled)
        new_df   == Reshape(df)
        filtered == DateFilter(new_df, s, e)
        detail   == DropDuplicateReportRows(filtered)
    IN  [data |-> data, check |-> check, merged |-> merged, filled |-> filled,
         df |-> df, new_df |-> new_df, filtered |-> filtered, detail |-> detail,
         final |-> Render(SummaryRows(detail) \o detail)]

NoStages ==
    [data |-> <<>>, check |-> <<>>, merged |-> <<>>, filled |-> <<>>,
     df |-> <<>>, new_df |-> <<>>, filtered |-> <<>>, detail |-> <<>>,
     final |-> <<>>]

-----------------------------------------------------------------------------
(* Inputs *)

\* the strings of length 0..k over the characters in cs
RECURSIVE Strings(_, _)
Strings(cs, k) ==
    IF k = 0 THEN {<<>>}
    ELSE LET shorter == Strings(cs, k - 1)
         IN  shorter \cup {Append(s, c) : s \in shorter, c \in cs}

\* the sequences of length 0..k over the set S
SeqsUpTo(S, k) == UNION {[1..n -> S] : n \in 0..k}

MainRow(i, name, status, fat, skuc, qty, lname, header, country) ==
    [Name |-> name, CreatedAt |-> Stamp(0, 0, 0), Status |-> status,
     FulfilledAt |-> fat, SKU |-> skuc, Qty |-> qty, LineName |-> lname,
     BName |-> IF header THEN "Jansen" ELSE "",
     BStreet |-> IF header THEN "Kerkstraat 1" ELSE "",
     BCountry |-> country, src |-> i]

RefRow(skuc, alc, other) == [SKU |-> skuc, Alc |-> alc, Other |-> other]

WholeWindowEnd == MaxSec * MicrosPerSec

Wine750 == <<"W", "i", "n", "e", " ", "7", "5", "0">>

Pack6x330 == <<"6", " ", "x", " ", "3", "3", "0", " ", "m", "l">>

Quiet ==
    /\ series = <<>>
    /\ floats = <<>>
    /\ sku = NaNStr
    /\ sku_out = NaNStr

NoTables ==
    /\ main = <<>>
    /\ has_status = TRUE
    /\ reference = <<>>
    /\ start_date = 0
    /\ end_date = 0
    /\ stages = NoStages
    /\ final_data = <<>>

\* the strings of the documentation and of the spec's examples
FloatExamples ==
    {<<"1", "5", ",", "0">>, <<"8", ",", "5", "%">>, <<" ", "7", ",", "0", " ">>,
     <<NBSP, "7", ",", "0", NBSP>>, <<"n", "/", "a">>, NaNStr}

FloatChars == {"7", "0", ",", ".", "%", " ", NBSP, "-", "n"}

InitFloat ==
    /\ pc = "call_to_float_eu"
    /\ series \in {<<s>> : s \in Strings(FloatChars, MaxLen)}
                    \cup SeqsUpTo(FloatExamples, MaxSeries)
    /\ floats = <<>>
    /\ sku = NaNStr
    /\ sku_out = NaNStr
    /\ NoTables

SkuExamples ==
    {<<"A", "B", "C", "-", "1", "2">>, <<"A", "B", "C", "9", "9", "A">>,
     <<"A", "B", "C">>}

SkuChars == {"A", "b", "1", "2", "-"}

InitSku ==
    /\ pc = "call_normalize_sku"
    /\ sku \in Strings(SkuChars, MaxSkuLen) \cup SkuExamples
    /\ sku_out = NaNStr
    /\ series = <<>>
    /\ floats = <<>>
    /\ NoTables

\* the join: the SKUs of the order rows and the reference table vary
JoinOrderSkus == {<<"a", "1", "-", "2">>, <<"b", "2">>, NaNStr}

JoinRefRows ==
    {RefRow(k, a, o) : k \in {<<"a", "1">>, NaNStr},
                       a \in {<<"1", "2", ",", "5">>, <<"7", ",", "0">>},
                       o \in {"x", "y"}}

InitJoin ==
    /\ pc = "call_process_files"
    /\ Quiet
    /\ \E f \in SeqsUpTo(JoinOrderSkus, MaxOrders) :
          main = [i \in 1..Len(f) |->
                    MainRow(i, "#1001", "fulfilled", Stamp(1, 0, 1), f[i],
                            <<"x">>, Pack6x330, TRUE, "BE")]
    /\ has_status = TRUE
    /\ reference \in SeqsUpTo(JoinRefRows, MaxRef)
    /\ start_date = 0
    /\ end_date = WholeWindowEnd
    /\ stages = NoStages
    /\ final_data = <<>>

\* gap filling and the row filters: status and country vary; a row with a blank
\* country is a continuation line, whose other header cells are blank too
GapRowChoices ==
    {<<st, co>> : st \in {"restocked", "fulfilled", ""}, co \in {"BE", "DE", "NL", ""}}

InitGap ==
    /\ pc = "call_process_files"
    /\ Quiet
    /\ \E f \in SeqsUpTo(GapRowChoices, MaxGapRows) :
          /\ main = [i \in 1..Len(f) |->
                        MainRow(i, "#1001", f[i][1],
                                IF f[i][2] = "" THEN NaNDate ELSE Stamp(1, 0, 1),
                                <<"a", "1">>, <<Digits[i + 1]>>, Wine750,
                                f[i][2] # "", f[i][2])]
          /\ has_status \in IF \A i \in 1..Len(f) : f[i][1] = "" THEN BOOLEAN ELSE {TRUE}
    /\ reference = <<RefRow(<<"a", "1">>, <<"1", "2", ",", "5">>, "x")>>
    /\ start_date = 0
    /\ end_date = WholeWindowEnd
    /\ stages = NoStages
    /\ final_data = <<>>

\* the date window: the delivery timestamp and the two bounds vary
Fractions == {0, 1, MicrosPerSec - 1}

DateCells ==
    {NaNDate, BadDate}
        \cup {Stamp(t, m, o) : t \in 0..MaxSec, m \in Fractions, o \in {0, 1}}

Instants == {t * MicrosPerSec + m : t \in 0..MaxSec, m \in Fractions}

InitDate ==
    /\ pc = "call_process_files"
    /\ Quiet
    /\ \E c1 \in DateCells, more \in SeqsUpTo({NaNDate, BadDate, Stamp(1, 0, 0)}, 1) :
          main = [i \in 1..(1 + Len(more)) |->
                    MainRow(i, "#1001", "fulfilled", IF i = 1 THEN c1 ELSE more[i - 1],
                            <<"a", "1">>, <<Digits[i + 1]>>, Wine750, TRUE, "BE")]
    /\ has_status = TRUE
    /\ reference = <<RefRow(<<"a", "1">>, <<"1", "2", ",", "5">>, "x")>>
    /\ start_date \in Instants
    /\ end_date \in Instants
    /\ stages = NoStages
    /\ final_data = <<>>

\* the totals: product, quantity and alcohol percentage vary; every line
\* carries the same order and billing cells, so equal report rows occur
Beer500 == <<"B", "e", "e", "r", " ", "5", "0", "0">>

Beer1000 == <<"B", "e", "e", "r", " ", "1", "0", "0", "0">>

Juice == <<"J", "u", "i", "c", "e">>

AggProducts ==
    {<<Beer500, <<"2">>>>, <<Beer1000, <<"2">>>>, <<Beer500, <<"1">>>>,
     <<Juice, <<"2">>>>}

AggSkus == {<<"l", "o">>, <<"h", "i">>, <<"n", "o">>}

AggReference ==
    <<RefRow(<<"l", "o">>, <<"8", ",", "5">>, "x"),
      RefRow(<<"h", "i">>, <<"8", ",", "5", "4", "%">>, "x"),
      RefRow(<<"h", "i">>, <<"8", ".", "5", "4">>, "y"),
      RefRow(<<"l", "o">>, <<"8", ",", "5">>, "x")>>

InitAgg ==
    /\ pc = "call_process_files"
    /\ Quiet
    /\ \E f \in SeqsUpTo(AggProducts \X AggSkus, MaxAggRows) :
          main = [i \in 1..Len(f) |->
                    MainRow(i, "#1001", "fulfilled", Stamp(1, 0, 1), f[i][2],
                            f[i][1][2], f[i][1][1], TRUE, "BE")]
    /\ has_status = TRUE
    /\ reference = AggReference
    /\ start_date = 0
    /\ end_date = WholeWindowEnd
    /\ stages = NoStages
    /\ final_data = <<>>

\* end to end: a restocked row, a domestic row and a qualifying row, in any
\* order; the qualifying row and the reference row carry the same SKU string
E2EOrders ==
    {<<"r", "d", "q">>, <<"r", "q", "d">>, <<"d", "r", "q">>,
     <<"d", "q", "r">>, <<"q", "r", "d">>, <<"q", "d", "r">>}

E2ERow(i, kind, k, rc, dc) ==
    MainRow(i,
            IF kind = "q" THEN "#1003" ELSE IF kind = "d" THEN "#1002" ELSE "#1001",
            IF kind = "r" THEN "restocked" ELSE "fulfilled",
            Stamp(1, 0, 1), k, <<"2">>, Wine750, TRUE,
            IF kind = "q" THEN "BE" ELSE IF kind = "d" THEN dc ELSE rc)

InitE2E ==
    /\ pc = "call_process_files"
    /\ Quiet
    /\ \E o \in E2EOrders, k \in Strings(SkuChars, MaxE2ESku) \ {<<>>},
          rc \in {"BE", "NL", ""}, dc \in {"NL", "FR"} :
          /\ main = [i \in 1..3 |-> E2ERow(i, o[i], k, rc, dc)]
          /\ reference = <<RefRow(k, <<"1", "2", ",", "5">>, "x")>>
    /\ has_status = TRUE
    /\ start_date = 0
    /\ end_date = WholeWindowEnd
    /\ stages = NoStages
    /\ final_data = <<>>

-----------------------------------------------------------------------------
(* The calls *)

\* a call of to_float_eu
CallToFloatEu ==
    /\ pc = "call_to_float_eu"
    /\ floats' = to_float_eu(series)
    /\ pc' = "done"
    /\ UNCHANGED <<series, sku, sku_out, main, has_status, reference,
                   start_date, end_date, stages, final_data>>

\* lines 36-37 on one cell of the "Lineitem sku" column
CallNormalizeSku ==
    /\ pc = "call_normalize_sku"
    /\ sku_out' = NormalizeSkuCell(sku)
    /\ pc' = "done"
    /\ UNCHANGED <<series, floats, sku, main, has_status, reference,
                   start_date, end_date, stages, final_data>>

\* a call of process_files
ProcessFiles ==
    /\ pc = "call_process_files"
    /\ stages' = Pipeline(main, has_status, reference, start_date, end_date)
    /\ final_data' = stages'.final
    /\ pc' = "done"
    /\ UNCHANGED <<series, floats, sku, sku_out, main, has_status, reference,
                   start_date, end_date>>

Init == InitFloat \/ InitSku \/ InitJoin \/ InitGap \/ InitDate \/ InitAgg \/ InitE2E

Next == CallToFloatEu \/ CallNormalizeSku \/ ProcessFiles

Spec == Init /\ [][Next]_vars

SpecFloat == InitFloat /\ [][CallToFloatEu]_vars

SpecSku == InitSku /\ [][CallNormalizeSku]_vars

SpecJoin == InitJoin /\ [][ProcessFiles]_vars

SpecGap == InitGap /\ [][ProcessFiles]_vars

SpecDate == InitDate /\ [][ProcessFiles]_vars

SpecAgg == InitAgg /\ [][ProcessFiles]_vars

SpecE2E == InitE2E /\ [][ProcessFiles]_vars

-----------------------------------------------------------------------------
(* Properties *)

Done == pc = "done"

\* the detail rows of the returned table: all rows after the first two
Detail == SubSeq(final_data, 3, Len(final_data))

\* total * 1000 = sum, on exact decimals
IsThousandth(total, sum) ==
    /\ total.d # 0
    /\ sum.d # 0
    /\ total.n * 1000 * sum.d = sum.n * total.d

\* the sum of xs[i] over the places i in S
RECURSIVE SumAt(_, _)
SumAt(xs, S) ==
    IF S = {} THEN [n |-> 0, d |-> 1]
    ELSE LET i == CHOOSE j \in S : TRUE
         IN  Add(xs[i], SumAt(xs, S \ {i}))

\* s ends in "-<digits>" or in an uppercase letter
EndsInVariantSuffix(s) ==
    /\ s # <<>>
    /\ \/ s[Len(s)] \in Upper
       \/ \E i \in 1..(Len(s) - 1) :
             s[i] = "-" /\ \A j \in (i + 1)..Len(s) : IsDigit(s[j])

SummaryLabelsFirst ==
    /\ Len(final_data) >= 2
    /\ final_data[1].Order = "Total Content <= 8.5%"
    /\ final_data[2].Order = "Total Content > 8.5%"

E2EShape(alcText) ==
    /\ Len(final_data) = 3
    /\ SummaryLabelsFirst
    /\ final_data[3].Order = "#1003"
    /\ final_data[3].Content = [n |-> 750, d |-> 1]
    /\ final_data[3].Total = [n |-> 1500, d |-> 1]
    /\ final_data[3].Alc = alcText

\* C1, as stated: for every SKU string that the qualifying order row and the
\* reference row share, the three-row export gives exactly two summary rows
\* and one detail row with Content 750, Total content 1500 and alcohol
\* percentage text "12.5".
C1_EndToEndEverySku == Done => E2EShape(<<"1", "2", ".", "5">>)

\* C1, amended: the same for every shared SKU string that does not end in
\* "-<digits>" or in an uppercase letter; for a shared SKU that does, the
\* order row's SKU is cut before the join, no longer equals the reference
\* SKU, and the one detail row has Content 750, Total content 1500 and an
\* empty alcohol percentage text.
C1_EndToEnd ==
    Done =>
        IF EndsInVariantSuffix(reference[1].SKU)
        THEN E2EShape(<<>>)
        ELSE E2EShape(<<"1", "2", ".", "5">>)

\* C1: a finished run whose shared SKU has no variant suffix, with the
\* restocked row first and a restocked row that is itself cross-border
C1_Witness ==
    /\ Done
    /\ Len(main) = 3
    /\ ~EndsInVariantSuffix(reference[1].SKU)
    /\ main[1].Status = "restocked"
    /\ main[1].BCountry = "BE"
    /\ main[3].BCountry = "BE"
    /\ Len(final_data) = 3

\* the alcohol percentage printed in an output row, read as a number
PrintedAlc(r) == ToNumeric(r.Alc)

\* C2, as stated: the first two rows are the two summary rows, and their
\* Total content is the sum of Total content over the detail rows of the
\* output whose (printed) alcohol percentage is <= 8.5, respectively > 8.5,
\* divided by 1000; a row with a missing percentage counts in neither.
C2_SummaryOverPrintedPercentage ==
    Done =>
        /\ SummaryLabelsFirst
        /\ IsThousandth(final_data[1].Total,
              SumAt([i \in 1..Len(Detail) |-> Detail[i].Total],
                    {i \in 1..Len(Detail) :
                        /\ ~IsNaN(Detail[i].Total)
                        /\ ~IsNaN(PrintedAlc(Detail[i]))
                        /\ PrintedAlc(Detail[i]).n * 10 <= 85 * PrintedAlc(Detail[i]).d}))
        /\ IsThousandth(final_data[2].Total,
              SumAt([i \in 1..Len(Detail) |-> Detail[i].Total],
                    {i \in 1..Len(Detail) :
                        /\ ~IsNaN(Detail[i].Total)
                        /\ ~IsNaN(PrintedAlc(Detail[i]))
                        /\ PrintedAlc(Detail[i]).n * 10 > 85 * PrintedAlc(Detail[i]).d}))

\* C2, amended: the same, the detail rows being split by their alcohol
\* percentage as a number, before it is printed with one decimal (a row at
\* 8.54 is printed "8.5" and counted above the threshold).  stages.detail[i]
\* is the detail row final_data[i + 2] before printing.
C2_Summary ==
    Done =>
        LET d == stages.detail
        IN  /\ SummaryLabelsFirst
            /\ Len(final_data) = Len(d) + 2
            /\ \A i \in 1..Len(d) : final_data[i + 2].Total = d[i].Total
            /\ IsThousandth(final_data[1].Total,
                  SumAt([i \in 1..Len(d) |-> d[i].Total],
                        {i \in 1..Len(d) :
                            /\ ~IsNaN(d[i].Total)
                            /\ ~IsNaN(d[i].Alc)
                            /\ d[i].Alc.n * 10 <= 85 * d[i].Alc.d}))
            /\ IsThousandth(final_data[2].Total,
                  SumAt([i \in 1..Len(d) |-> d[i].Total],
                        {i \in 1..Len(d) :
                            /\ ~IsNaN(d[i].Total)
                            /\ ~IsNaN(d[i].Alc)
                            /\ d[i].Alc.n * 10 > 85 * d[i].Alc.d}))

\* C2: detail totals 1000 and 2000 at 8.5 and 500 at 8.54 give the summary
\* totals 3.0 and 0.5
C2_Witness ==
    /\ Done
    /\ Len(final_data) = 5
    /\ final_data[1].Total = [n |-> 3, d |-> 1]
    /\ final_data[2].Total = [n |-> 5, d |-> 10]
    /\ \E i \in 3..5 : stages.detail[i - 2].Alc = [n |-> 854, d |-> 100]

\* the value a forward fill over the source rows gives row i in column col:
\* the cell of the nearest row at or before i that is not blank, if any
SourceFill(col, na, i) ==
    LET known == {j \in 1..i : main[j][col] # na}
    IN  IF known = {} THEN na ELSE main[Max(known)][col]

\* C3, as stated: every row that reaches the country filter carries, in each
\* of the four filled columns, the value of the nearest preceding source row
\* in which the column is not blank, whatever the other cells of that source
\* row are (its Fulfillment Status included), and so does every detail row of
\* the output.
C3_FillFromNearestSourceRow ==
    Done =>
        /\ \A k \in 1..Len(stages.filled) :
              LET r == stages.filled[k]
              IN  /\ r.BCountry = SourceFill("BCountry", "", r.src)
                  /\ r.BName = SourceFill("BName", "", r.src)
                  /\ r.BStreet = SourceFill("BStreet", "", r.src)
                  /\ r.FulfilledAt = SourceFill("FulfilledAt", NaNDate, r.src)
        /\ \A k \in 1..Len(Detail) :
              Detail[k].Country = SourceFill("BCountry", "", Detail[k].src)

\* two reference rows that differ never carry the same SKU
ReferenceSkusUnique ==
    \A i, j \in 1..Len(reference) :
        (reference[i].SKU # <<>> /\ reference[i].SKU = reference[j].SKU)
            => reference[i] = reference[j]

\* the rows of the merged table that come from source row i
CopiesOf(i) == {k \in 1..Len(stages.merged) : stages.merged[k].src = i}

\* C4, as stated: for every reference table, the merged table has no more
\* rows than the order table that entered the join, each order line being
\* joined with at most one reference entry.
C4_JoinNeverAddsRows ==
    Done =>
        /\ Len(stages.merged) <= Len(stages.data)
        /\ \A i \in 1..Len(main) : Cardinality(CopiesOf(i)) <= 1

\* C4, amended: the same for every reference table in which no two rows that
\* differ share a SKU; exact duplicates are removed before the join and add
\* nothing.
C4_JoinAddsNoRowsOnUniqueSkus ==
    (Done /\ ReferenceSkusUnique) =>
        /\ Len(stages.merged) <= Len(stages.data)
        /\ \A i \in 1..Len(main) : Cardinality(CopiesOf(i)) <= 1

\* C4: a finished join against a reference table holding the same row twice,
\* with an order row that matches it
C4_Witness ==
    /\ Done
    /\ Len(reference) = 2
    /\ reference[1] = reference[2]
    /\ reference[1].SKU # <<>>
    /\ \E k \in 1..Len(stages.merged) : stages.merged[k].Alc # <<>>
    /\ Len(stages.merged) = Len(stages.data)

\* the cells of an order row that the join must hand on
OrderCells(r) ==
    <<r.Name, r.CreatedAt, r.Status, r.FulfilledAt, r.SKU, r.Qty, r.LineName,
      r.BName, r.BStreet, r.BCountry, r.src>>

\* C5: the merged table has at least as many rows as the order table that
\* entered the join; every order row is in it, unchanged in its order cells,
\* and the rows keep their relative order; an order row whose normalised SKU
\* equals no reference SKU is there exactly once, with a missing alcohol
\* percentage.
C5_JoinLeftPreserving ==
    Done =>
        LET d == stages.data
            m == stages.merged
        IN  /\ Len(m) >= Len(d)
            /\ \A i \in 1..Len(d) :
                  \E k \in 1..Len(m) : OrderCells(m[k]) = OrderCells(d[i])
            /\ \A k \in 1..Len(m) :
                  \E i \in 1..Len(d) : OrderCells(m[k]) = OrderCells(d[i])
            /\ \A k, l \in 1..Len(m) : k <= l => m[k].src <= m[l].src
            /\ \A i \in 1..Len(d) :
                  (\A j \in 1..Len(reference) : reference[j].SKU # d[i].SKU)
                      => \E k \in 1..Len(m) :
                            /\ CopiesOf(d[i].src) = {k}
                            /\ m[k].Alc = <<>>

\* C5: a finished join of two order rows, the first matched by two reference
\* rows, the second by none
C5_Witness ==
    /\ Done
    /\ Len(stages.data) = 2
    /\ Cardinality(CopiesOf(1)) = 2
    /\ CopiesOf(2) = {3}
    /\ stages.merged[3].Alc = <<>>
    /\ stages.merged[1].Alc # <<>>

SkuABC == <<"A", "B", "C">>

\* C6, as stated: "ABC-12" becomes "ABC", "ABC99A" becomes "ABC99" and "ABC"
\* stays "ABC".
C6_SkuExamples ==
    Done =>
        /\ sku = <<"A", "B", "C", "-", "1", "2">> => sku_out = SkuABC
        /\ sku = <<"A", "B", "C", "9", "9", "A">> => sku_out = <<"A", "B", "C", "9", "9">>
        /\ sku = SkuABC => sku_out = SkuABC

\* C6, amended: a trailing "-<digits>" or a single trailing uppercase letter
\* is cut, at the end of the string only, and a SKU that ends in neither is
\* unchanged: "ABC-12" becomes "ABC", "ABC99A" becomes "ABC99", and "ABC",
\* which ends in an uppercase letter, becomes "AB".
C6_SkuNormalization ==
    (Done /\ sku # <<>>) =>
        /\ sku = <<"A", "B", "C", "-", "1", "2">> => sku_out = SkuABC
        /\ sku = <<"A", "B", "C", "9", "9", "A">> => sku_out = <<"A", "B", "C", "9", "9">>
        /\ sku = SkuABC => sku_out = <<"A", "B">>
        /\ sku[Len(sku)] \in Upper => sku_out = SubSeq(sku, 1, Len(sku) - 1)
        /\ \A i \in 1..(Len(sku) - 1) :
              (sku[i] = "-" /\ \A j \in (i + 1)..Len(sku) : IsDigit(sku[j]))
                  => sku_out = SubSeq(sku, 1, i - 1)
        /\ ~EndsInVariantSuffix(sku) => sku_out = sku

\* C6: the SKU "ABC" has been normalised
C6_Witness == Done /\ sku = SkuABC /\ sku_out = <<"A", "B">>

\* the export without its restocked rows
WithoutRestocked == SelectSeq(main, LAMBDA r : r.Status # "restocked")

\* C7: when the export has a Fulfillment Status column, no detail row of the
\* output comes from a row whose status is "restocked", and the whole output,
\* summary totals included, is the output for the export without those rows.
C7_RestockedNeverReported ==
    (Done /\ has_status) =>
        /\ \A k \in 1..Len(Detail) : main[Detail[k].src].Status # "restocked"
        /\ final_data =
              Pipeline(WithoutRestocked, has_status, reference, start_date, end_date).final

\* C7: a finished run over an export with a restocked cross-border row that
\* carries its own delivery date, next to a reported row
C7_Witness ==
    /\ Done
    /\ has_status
    /\ \E i \in 1..Len(main) :
          /\ main[i].Status = "restocked"
          /\ main[i].BCountry = "BE"
          /\ main[i].FulfilledAt # NaNDate
    /\ Len(final_data) = 3

\* the instant a timestamp cell writes down, fraction included
Instant(c) == c.sec * MicrosPerSec + c.micro

\* source row i has a row in the detail table
Reported(i) == \E k \in 1..Len(Detail) : Detail[k].src = i

\* C8, as stated: a row that passed the restock and country filters is a
\* detail row exactly when its delivery timestamp is a date and lies in
\* [start_date, end_date], bounds included, one microsecond outside excluded.
C8_WindowOnDeliveryTimestamp ==
    Done =>
        \A k \in 1..Len(stages.df) :
            LET r == stages.df[k]
            IN  Reported(r.src) <=>
                    /\ r.FulfilledAt.kind = "ts"
                    /\ start_date <= Instant(r.FulfilledAt)
                    /\ Instant(r.FulfilledAt) <= end_date

\* C8, amended: ... exactly when its delivery timestamp, cut to its first 19
\* characters (the whole second; fraction and zone offset dropped), is a date
\* and lies in [start_date, end_date], bounds included: a cut timestamp equal
\* to a bound is in, one microsecond outside a bound is out, and a row
\* without a parsable delivery date is out.
C8_WindowOnWholeSecond ==
    Done =>
        \A k \in 1..Len(stages.df) :
            LET r == stages.df[k]
            IN  Reported(r.src) <=>
                    /\ r.FulfilledAt.kind = "ts"
                    /\ start_date <= r.FulfilledAt.sec * 1000000
                    /\ r.FulfilledAt.sec * 1000000 <= end_date

\* C8: a reported row whose delivery timestamp lies one microsecond after
\* end_date, followed by a row with an unparsable delivery date that is left
\* out
C8_Witness ==
    /\ Done
    /\ Len(main) = 2
    /\ main[1].FulfilledAt.kind = "ts"
    /\ Instant(main[1].FulfilledAt) = end_date + 1
    /\ Reported(1)
    /\ main[2].FulfilledAt = BadDate
    /\ ~Reported(2)

\* the digits of the examples, as decimals
PlainDecimalValue(s) ==
    LET kept == SelectSeq(s, LAMBDA c : IsDigit(c) \/ c \in {",", "."})
        seps == {i \in 1..Len(kept) : ~IsDigit(kept[i])}
        ds   == SelectSeq(kept, IsDigit)
        frac == IF seps = {} THEN 0 ELSE Len(kept) - Max(seps)
    IN  [n |-> DigitsVal(ds), d |-> Pow10(frac)]

\* a text with at least one digit, at most one comma or period and no minus
IsPlainDecimal(s) ==
    /\ \E i \in 1..Len(s) : IsDigit(s[i])
    /\ Cardinality({i \in 1..Len(s) : s[i] \in {",", "."}}) <= 1
    /\ \A i \in 1..Len(s) : s[i] # "-"

\* C9: to_float_eu returns as many elements as it is given; "15,0" gives
\* 15.0, "8,5%" gives 8.5, " 7,0 " and NBSP-padded "7,0" give 7.0, "n/a"
\* and a missing element give NaN; a text without a digit gives NaN; a text
\* without a minus sign, with a digit and at most one comma or period, gives
\* the decimal its digits write, whatever other characters surround them.
C9_ToFloatEu ==
    Done =>
        /\ Len(floats) = Len(series)
        /\ \A i \in 1..Len(series) :
              /\ series[i] = <<"1", "5", ",", "0">> => floats[i] = [n |-> 15, d |-> 1]
              /\ series[i] = <<"8", ",", "5", "%">> => floats[i] = [n |-> 85, d |-> 10]
              /\ series[i] = <<" ", "7", ",", "0", " ">> => floats[i] = [n |-> 7, d |-> 1]
              /\ series[i] = <<NBSP, "7", ",", "0", NBSP>> => floats[i] = [n |-> 7, d |-> 1]
              /\ series[i] = <<"n", "/", "a">> => floats[i] = [n |-> 0, d |-> 0]
              /\ (\A j \in 1..Len(series[i]) : ~IsDigit(series[i][j]))
                    => floats[i] = [n |-> 0, d |-> 0]
              /\ IsPlainDecimal(series[i])
                    => /\ floats[i].d # 0
                       /\ floats[i].n * PlainDecimalValue(series[i]).d
                             = PlainDecimalValue(series[i]).n * floats[i].d

\* C9: a finished call on "n/a" followed by "8,5%"
C9_Witness ==
    /\ Done
    /\ series = << <<"n", "/", "a">>, <<"8", ",", "5", "%">> >>
    /\ floats = << [n |-> 0, d |-> 0], [n |-> 85, d |-> 10] >>

\* the twelve report columns of a row
TwelveCols(r) ==
    <<r.Order, r.InvDate, r.DelDate, r.Client, r.Addr, r.Product, r.Qty,
      r.Content, r.Total, r.Alc, r.Plato, r.Country>>

\* C10, as stated: no two detail rows of the returned table agree in all
\* twelve report columns.
C10_ReturnedRowsDistinct ==
    Done =>
        \A i, j \in 1..Len(Detail) :
            i # j => TwelveCols(Detail[i]) # TwelveCols(Detail[j])

\* the distinct rows of a table, over the twelve columns
DistinctRows(t) == {TwelveCols(t[k]) : k \in 1..Len(t)}

RECURSIVE SumTotalsOf(_)
SumTotalsOf(S) ==
    IF S = {} THEN [n |-> 0, d |-> 1]
    ELSE LET c == CHOOSE x \in S : TRUE
         IN  IF IsNaN(c[9]) THEN SumTotalsOf(S \ {c})
             ELSE Add(c[9], SumTotalsOf(S \ {c}))

\* C10, amended: no two detail rows agree in all twelve report columns with
\* the alcohol percentage taken as a number, before it is printed with one
\* decimal (rows at 8.5 and 8.54 that agree elsewhere are both kept and both
\* printed "8.5"); rows that passed the date filter and agree in all twelve
\* columns are one detail row, and each summary total counts every distinct
\* row once.
C10_DetailRowsDistinct ==
    Done =>
        LET d == stages.detail
            f == stages.filtered
        IN  /\ \A i, j \in 1..Len(d) : i # j => TwelveCols(d[i]) # TwelveCols(d[j])
            /\ DistinctRows(d) = DistinctRows(f)
            /\ Len(d) = Cardinality(DistinctRows(f))
            /\ IsThousandth(final_data[1].Total,
                  SumTotalsOf({c \in DistinctRows(f) :
                      c[10].d # 0 /\ c[10].n * 10 <= 85 * c[10].d}))
            /\ IsThousandth(final_data[2].Total,
                  SumTotalsOf({c \in DistinctRows(f) :
                      c[10].d # 0 /\ c[10].n * 10 > 85 * c[10].d}))

\* C10: two equal order lines, each joined with two reference rows of the
\* same percentage, end as one detail row counted once
C10_Witness ==
    /\ Done
    /\ Len(main) = 2
    /\ Len(stages.filtered) = 4
    /\ Len(stages.detail) = 1
    /\ Len(final_data) = 3
    /\ final_data[2].Total = [n |-> 1, d |-> 1]

=============================================================================
